---- MODULE Spec2Model ----
(***************************************************************************)
(* Long-running job orchestration of the backend: the training and the     *)
(* optimization services (app/services/*_service.py) and the endpoints     *)
(* that submit, poll and cancel their jobs (app/api/v1/endpoints).         *)
(*                                                                         *)
(* The runners are asyncio coroutines: a runner is atomic between two      *)
(* awaits, and its only await is the simulated step (asyncio.sleep).       *)
(*                                                                         *)
(* Numbers the code keeps as floats are kept as integers over a fixed      *)
(* denominator that depends only on the job's number of steps n:           *)
(*   progress            in units of 1/n                                   *)
(*   loss, accuracy      in units of 1/(10*n)                              *)
(*   scores, improvement in units of 1/(1000*n)                            *)
(* A time stamp is kept as "stamped" (the value of utcnow() is an input    *)
(* that no branch of the code reads).  A key a dict may lack is kept as a  *)
(* set: {} while the key is absent, {v} once it holds v.                   *)
(***************************************************************************)
EXTENDS Integers, Sequences, FiniteSets, TLC

MaxJobs == 2
MaxTotalSteps == 4

MinEpochs == 1
MinIterations == 1
MaxEpochs == 100
MaxIterations == 1000

Ids == 1..MaxJobs
Services == 1..MaxJobs
FreshService == 0

VARIABLES active_jobs, tasks, lastCall, cancelAt

vars == <<active_jobs, tasks, lastCall, cancelAt>>

----------------------------------------------------------------------------
(* Dicts *)

EmptyDict == [x \in {} |-> 0]

DictSet(d, k, v) == [x \in (DOMAIN d) \cup {k} |-> IF x = k THEN v ELSE d[x]]

DictGet(field, default) == IF field = {} THEN default ELSE CHOOSE v \in field : TRUE

----------------------------------------------------------------------------
(* Requests *)

TrainingRequest == {[epochs |-> n] : n \in MinEpochs..MaxTotalSteps}

OptimizationRequest == {[max_iterations |-> n] : n \in MinIterations..MaxTotalSteps}

(* The value of epochs / max_iterations in a request body, before           *)
(* validation.                                                             *)
RawSteps == (MinEpochs - 2)..MaxTotalSteps

(* Variant: Field(ge=0).                                                   *)
epochs_field_ge0(epochs) == epochs >= 0 /\ epochs <= MaxEpochs

(* epochs: int = Field(default=10, ge=1, le=100)                           *)
epochs_field(epochs) == epochs >= MinEpochs /\ epochs <= MaxEpochs

(* max_iterations: int = Field(default=100, ge=1, le=1000)                 *)
max_iterations_field(max_iterations) ==
    max_iterations >= MinIterations /\ max_iterations <= MaxIterations

NoTask == [func |-> "none"]

None == [none |-> TRUE]

HTTPException(status_code) == [status_code |-> status_code]

NoCall == [op |-> "none", svc |-> 0, id |-> 0, ret |-> None]

NoCancel == -1

TrainingResponse(training_id, request) ==
    [training_id |-> training_id, status |-> "pending", total_epochs |-> request.epochs]

OptimizationResponse(optimization_id, request) ==
    [optimization_id |-> optimization_id, status |-> "pending",
     total_iterations |-> request.max_iterations]

----------------------------------------------------------------------------
(* TrainingService *)

train_model_job(request) ==
    [status |-> "running",
     start_time |-> "stamped",
     request |-> request,
     progress |-> 0,
     metrics |-> {},
     current_epoch |-> {},
     completion_time |-> {},
     error |-> {}]

(* Variant: the check compares with a status the service never writes.    *)
train_model_cancelled_misspelt(job) == job.status = "canceled"

train_model_cancelled(job) == job.status = "cancelled"

train_model_epoch(job, epoch, total_epochs) ==
    [job EXCEPT !.progress = epoch + 1,
                !.current_epoch = {epoch + 1},
                !.metrics = {[loss |-> 10 * total_epochs - 8 * (epoch + 1),
                              accuracy |-> 9 * (epoch + 1),
                              epoch |-> epoch + 1]}]

(* Variant: the end of the loop stamps the time and leaves the status.     *)
train_model_completed_time_only(job) ==
    [job EXCEPT !.completion_time = {"stamped"}]

train_model_completed(job) ==
    [job EXCEPT !.status = "completed", !.completion_time = {"stamped"}]

train_model_except(job) ==
    [job EXCEPT !.status = "failed", !.error = {"str(e)"}]

(* Variant: the status is checked on waking, before the epoch is recorded. *)
train_model_resume_check_first(job, epoch, total_epochs) ==
    IF train_model_cancelled(job)
    THEN [job |-> job, pc |-> "return_cancelled", step |-> epoch]
    ELSE LET recorded == train_model_epoch(job, epoch, total_epochs)
         IN  IF epoch + 1 < total_epochs
             THEN [job |-> recorded, pc |-> "sleep", step |-> epoch + 1]
             ELSE [job |-> train_model_completed(recorded), pc |-> "return_completed",
                   step |-> epoch + 1]

(* Variant: after the last epoch the loop begins again.                    *)
train_model_resume_again(job, epoch, total_epochs) ==
    LET recorded == train_model_epoch(job, epoch, total_epochs)
    IN  IF train_model_cancelled(recorded)
        THEN [job |-> recorded, pc |-> "return_cancelled", step |-> epoch + 1]
        ELSE [job |-> recorded, pc |-> "sleep", step |-> (epoch + 1) % total_epochs]

(* Variant: the loop runs one epoch past the requested number.            *)
train_model_resume_one_more(job, epoch, total_epochs) ==
    LET recorded == train_model_epoch(job, epoch, total_epochs)
    IN  IF epoch + 1 <= total_epochs
        THEN IF train_model_cancelled(recorded)
             THEN [job |-> recorded, pc |-> "return_cancelled", step |-> epoch + 1]
             ELSE [job |-> recorded, pc |-> "sleep", step |-> epoch + 1]
        ELSE [job |-> train_model_completed(recorded), pc |-> "return_completed",
              step |-> epoch + 1]

(* The coroutine from the end of one sleep to the next await or return.    *)
train_model_resume(job, epoch, total_epochs) ==
    LET recorded == train_model_epoch(job, epoch, total_epochs)
    IN  IF epoch + 1 < total_epochs
        THEN IF train_model_cancelled(recorded)
             THEN [job |-> recorded, pc |-> "return_cancelled", step |-> epoch + 1]
             ELSE [job |-> recorded, pc |-> "sleep", step |-> epoch + 1]
        ELSE [job |-> train_model_completed(recorded), pc |-> "return_completed",
              step |-> epoch + 1]

get_training_progress(jobs, training_id) ==
    IF training_id \notin DOMAIN jobs
    THEN None
    ELSE LET job == jobs[training_id]
             metrics == job.metrics
         IN  [training_id |-> training_id,
              status |-> job.status,
              epoch |-> IF metrics = {} THEN 0 ELSE DictGet(metrics, 0).epoch,
              total_epochs |-> job.request.epochs,
              loss |-> IF metrics = {} THEN 0 ELSE DictGet(metrics, 0).loss,
              accuracy |-> IF metrics = {} THEN 0 ELSE DictGet(metrics, 0).accuracy]

(* Variant: the cancel also wipes the progress the runner recorded.        *)
cancel_training_call_resetting(jobs, training_id) ==
    IF training_id \notin DOMAIN jobs
    THEN [ret |-> FALSE, jobs |-> jobs]
    ELSE IF jobs[training_id].status = "running"
         THEN [ret |-> TRUE,
               jobs |-> [jobs EXCEPT ![training_id].status = "cancelled",
                                     ![training_id].progress = 0,
                                     ![training_id].metrics = {}]]
         ELSE [ret |-> FALSE, jobs |-> jobs]

(* The value returned and the table left behind by cancel_training.        *)
cancel_training_call(jobs, training_id) ==
    IF training_id \notin DOMAIN jobs
    THEN [ret |-> FALSE, jobs |-> jobs]
    ELSE IF jobs[training_id].status = "running"
         THEN [ret |-> TRUE,
               jobs |-> [jobs EXCEPT ![training_id].status = "cancelled"]]
         ELSE [ret |-> FALSE, jobs |-> jobs]

----------------------------------------------------------------------------
(* OptimizationService *)

BaselineScore(total_iterations) == 500 * total_iterations

optimize_module_job(request) ==
    [status |-> "running",
     start_time |-> "stamped",
     request |-> request,
     progress |-> 0,
     best_score |-> 0,
     baseline_score |-> BaselineScore(request.max_iterations),
     history |-> << >>,
     completion_time |-> {},
     error |-> {}]

optimize_module_cancelled(job) == job.status = "cancelled"

Max(a, b) == IF a >= b THEN a ELSE b

(* Variant: the record as it stands after the write of progress, the rest  *)
(* of the iteration not yet written.                                       *)
optimize_module_iteration_progress_only(job, iteration, total_iterations) ==
    LET progress == iteration + 1
    IN  [job EXCEPT !.progress = progress]

(* Variant: the best score of the record is left as it was created.        *)
optimize_module_iteration_best_unwritten(job, iteration, total_iterations) ==
    LET progress == iteration + 1
        current_score == 500 * total_iterations + 400 * progress + iteration * total_iterations
        best_score == Max(current_score, job.best_score)
        history_entry == [iteration |-> iteration + 1,
                          score |-> current_score,
                          best_score |-> best_score,
                          improvement |-> best_score - job.baseline_score]
    IN  [job EXCEPT !.progress = progress,
                    !.history = Append(job.history, history_entry)]

(* Variant: the entry carries the loop variable, which starts at 0.        *)
optimize_module_iteration_zero_based(job, iteration, total_iterations) ==
    LET progress == iteration + 1
        current_score == 500 * total_iterations + 400 * progress + iteration * total_iterations
        best_score == Max(current_score, job.best_score)
        history_entry == [iteration |-> iteration,
                          score |-> current_score,
                          best_score |-> best_score,
                          improvement |-> best_score - job.baseline_score]
    IN  [job EXCEPT !.progress = progress,
                    !.best_score = best_score,
                    !.history = Append(job.history, history_entry)]

(* Variant: the history keeps the latest entry alone.                      *)
optimize_module_iteration_latest_only(job, iteration, total_iterations) ==
    LET progress == iteration + 1
        current_score == 500 * total_iterations + 400 * progress + iteration * total_iterations
        best_score == Max(current_score, job.best_score)
        history_entry == [iteration |-> iteration + 1,
                          score |-> current_score,
                          best_score |-> best_score,
                          improvement |-> best_score - job.baseline_score]
    IN  [job EXCEPT !.progress = progress,
                    !.best_score = best_score,
                    !.history = <<history_entry>>]

optimize_module_iteration(job, iteration, total_iterations) ==
    LET progress == iteration + 1
        current_score == 500 * total_iterations + 400 * progress + iteration * total_iterations
        best_score == Max(current_score, job.best_score)
        history_entry == [iteration |-> iteration + 1,
                          score |-> current_score,
                          best_score |-> best_score,
                          improvement |-> best_score - job.baseline_score]
    IN  [job EXCEPT !.progress = progress,
                    !.best_score = best_score,
                    !.history = Append(job.history, history_entry)]

optimize_module_completed(job) ==
    [job EXCEPT !.status = "completed", !.completion_time = {"stamped"}]

(* Variant: the handler records the message and leaves the status.         *)
optimize_module_except_error_only(job) ==
    [job EXCEPT !.error = {"str(e)"}]

optimize_module_except(job) ==
    [job EXCEPT !.status = "failed", !.error = {"str(e)"}]

(* Variant: the status is checked on waking, before the step is recorded. *)
optimize_module_resume_check_first(job, iteration, total_iterations) ==
    IF optimize_module_cancelled(job)
    THEN [job |-> job, pc |-> "return_cancelled", step |-> iteration]
    ELSE LET recorded == optimize_module_iteration(job, iteration, total_iterations)
         IN  IF iteration + 1 < total_iterations
             THEN [job |-> recorded, pc |-> "sleep", step |-> iteration + 1]
             ELSE [job |-> optimize_module_completed(recorded), pc |-> "return_completed",
                   step |-> iteration + 1]

(* Variant: a cancelled status breaks out of the loop instead of           *)
(* returning, and the lines after the loop run.                            *)
optimize_module_resume_break(job, iteration, total_iterations) ==
    LET recorded == optimize_module_iteration(job, iteration, total_iterations)
    IN  IF iteration + 1 < total_iterations /\ ~optimize_module_cancelled(recorded)
        THEN [job |-> recorded, pc |-> "sleep", step |-> iteration + 1]
        ELSE [job |-> optimize_module_completed(recorded), pc |-> "return_completed",
              step |-> iteration + 1]

optimize_module_resume(job, iteration, total_iterations) ==
    LET recorded == optimize_module_iteration(job, iteration, total_iterations)
    IN  IF iteration + 1 < total_iterations
        THEN IF optimize_module_cancelled(recorded)
             THEN [job |-> recorded, pc |-> "return_cancelled", step |-> iteration + 1]
             ELSE [job |-> recorded, pc |-> "sleep", step |-> iteration + 1]
        ELSE [job |-> optimize_module_completed(recorded), pc |-> "return_completed",
              step |-> iteration + 1]

get_optimization_progress(jobs, optimization_id) ==
    IF optimization_id \notin DOMAIN jobs
    THEN None
    ELSE LET job == jobs[optimization_id]
             history == job.history
         IN  [optimization_id |-> optimization_id,
              status |-> job.status,
              iteration |-> Len(history),
              total_iterations |-> job.request.max_iterations,
              current_score |-> IF history # << >> THEN history[Len(history)].score ELSE 0,
              best_score |-> IF history # << >> THEN history[Len(history)].best_score ELSE 0,
              improvement |-> IF history # << >> THEN history[Len(history)].improvement ELSE 0]

(* Variant: an accepted cancel empties the history.                        *)
cancel_optimization_call_clearing(jobs, optimization_id) ==
    IF optimization_id \notin DOMAIN jobs
    THEN [ret |-> FALSE, jobs |-> jobs]
    ELSE IF jobs[optimization_id].status = "running"
         THEN [ret |-> TRUE,
               jobs |-> [jobs EXCEPT ![optimization_id].status = "cancelled",
                                     ![optimization_id].history = << >>]]
         ELSE [ret |-> FALSE, jobs |-> jobs]

(* Variant: an id the table does not hold is entered as cancelled.         *)
cancel_optimization_call_registers(jobs, optimization_id) ==
    IF optimization_id \notin DOMAIN jobs
    THEN [ret |-> FALSE,
          jobs |-> DictSet(jobs, optimization_id,
                           [optimize_module_job([max_iterations |-> MinIterations])
                               EXCEPT !.status = "cancelled"])]
    ELSE IF jobs[optimization_id].status = "running"
         THEN [ret |-> TRUE,
               jobs |-> [jobs EXCEPT ![optimization_id].status = "cancelled"]]
         ELSE [ret |-> FALSE, jobs |-> jobs]

(* Variant: every job that is not cancelled yet is accepted.               *)
cancel_optimization_call_not_cancelled(jobs, optimization_id) ==
    IF optimization_id \notin DOMAIN jobs
    THEN [ret |-> FALSE, jobs |-> jobs]
    ELSE IF jobs[optimization_id].status # "cancelled"
         THEN [ret |-> TRUE,
               jobs |-> [jobs EXCEPT ![optimization_id].status = "cancelled"]]
         ELSE [ret |-> FALSE, jobs |-> jobs]

(* Variant: a cancelled job is accepted again.                             *)
cancel_optimization_call_unlatched(jobs, optimization_id) ==
    IF optimization_id \notin DOMAIN jobs
    THEN [ret |-> FALSE, jobs |-> jobs]
    ELSE IF jobs[optimization_id].status \in {"running", "cancelled"}
         THEN [ret |-> TRUE,
               jobs |-> [jobs EXCEPT ![optimization_id].status = "cancelled"]]
         ELSE [ret |-> FALSE, jobs |-> jobs]

cancel_optimization_call(jobs, optimization_id) ==
    IF optimization_id \notin DOMAIN jobs
    THEN [ret |-> FALSE, jobs |-> jobs]
    ELSE IF jobs[optimization_id].status = "running"
         THEN [ret |-> TRUE,
               jobs |-> [jobs EXCEPT ![optimization_id].status = "cancelled"]]
         ELSE [ret |-> FALSE, jobs |-> jobs]

(* Variant: the results of a job are built whatever its status.           *)
get_optimization_results_any_status(jobs, optimization_id) ==
    IF optimization_id \notin DOMAIN jobs
    THEN None
    ELSE LET job == jobs[optimization_id]
         IN  [optimization_id |-> optimization_id,
              final_score |-> job.best_score,
              baseline_score |-> job.baseline_score,
              improvement |-> job.best_score - job.baseline_score,
              iterations_completed |-> Len(job.history),
              optimization_history |-> job.history]

get_optimization_results(jobs, optimization_id) ==
    IF optimization_id \notin DOMAIN jobs
    THEN None
    ELSE LET job == jobs[optimization_id]
         IN  IF job.status # "completed"
             THEN None
             ELSE [optimization_id |-> optimization_id,
                   final_score |-> job.best_score,
                   baseline_score |-> job.baseline_score,
                   improvement |-> job.best_score - job.baseline_score,
                   iterations_completed |-> Len(job.history),
                   optimization_history |-> job.history]

----------------------------------------------------------------------------
(* State *)

(* active_jobs[s] is the dict self.active_jobs of service instance s.  The  *)
(* k-th start request builds the k-th instance and draws the k-th id.       *)
(* tasks[id] is the background task of job id: the coroutine, the instance  *)
(* it is bound to, its arguments, its loop variable and where it stands.    *)
(* lastCall is the latest call of the request layer (on the instance its   *)
(* Depends built, FreshService) or of a caller of instance svc, with the    *)
(* value it returned; a runner's step forgets it.  cancelAt[id] is the step *)
(* count the record of job id showed when a cancel of it returned True.     *)

Init ==
    /\ active_jobs = [s \in Services |-> EmptyDict]
    /\ tasks = [id \in Ids |-> NoTask]
    /\ lastCall = NoCall
    /\ cancelAt = [id \in Ids |-> NoCancel]

Created(s) == tasks[s] # NoTask

IsTraining(s) == Created(s) /\ tasks[s].func = "train_model"

IsOptimization(s) == Created(s) /\ tasks[s].func = "optimize_module"

Steps(task) == IF task.func = "train_model" THEN task.request.epochs
               ELSE task.request.max_iterations

RECURSIVE Requested(_)
Requested(ids) ==
    IF ids = {} THEN 0
    ELSE LET id == CHOOSE x \in ids : TRUE
         IN  (IF tasks[id] = NoTask THEN 0 ELSE Steps(tasks[id])) + Requested(ids \ {id})

(* The model stops taking submissions at MaxJobs jobs and MaxTotalSteps     *)
(* steps requested over all of them.                                        *)
Admits(steps) == Requested(Ids) + steps <= MaxTotalSteps

(* Variant: an id that may have been drawn before.                         *)
uuid4_any(id) == id \in Ids

(* uuid.uuid4(): an id no earlier request drew.                            *)
uuid4(id) == /\ tasks[id] = NoTask
             /\ \A other \in Ids : other < id => tasks[other] # NoTask

(* Depends(get_training_service): a new instance, its table empty.         *)
get_training_service == EmptyDict

get_optimization_service == EmptyDict

----------------------------------------------------------------------------
(* Endpoints of /training *)

start_training(request) ==
    \E training_id \in Ids :
        /\ uuid4(training_id)
        /\ Admits(request.epochs)
        /\ tasks' = [tasks EXCEPT ![training_id] =
                        [func |-> "train_model", svc |-> training_id, id |-> training_id,
                         request |-> request, pc |-> "queued", step |-> 0]]
        /\ lastCall' = [op |-> "start_training", svc |-> training_id, id |-> training_id,
                        ret |-> TrainingResponse(training_id, request)]
        /\ UNCHANGED <<active_jobs, cancelAt>>

get_training_status(training_id) ==
    LET progress == get_training_progress(get_training_service, training_id)
    IN  /\ lastCall' = [op |-> "get_training_status", svc |-> FreshService, id |-> training_id,
                        ret |-> IF progress = None THEN HTTPException(404) ELSE progress]
        /\ UNCHANGED <<active_jobs, tasks, cancelAt>>

endpoint_cancel_training(training_id) ==
    LET success == cancel_training_call(get_training_service, training_id).ret
    IN  /\ lastCall' = [op |-> "endpoint_cancel_training", svc |-> FreshService, id |-> training_id,
                        ret |-> IF success THEN [message |-> "cancelled successfully"]
                                          ELSE HTTPException(404)]
        /\ UNCHANGED <<active_jobs, tasks, cancelAt>>

----------------------------------------------------------------------------
(* TrainingService: the runner and the calls on an instance *)

train_model_start(id) ==
    /\ tasks[id] # NoTask
    /\ tasks[id].func = "train_model"
    /\ tasks[id].pc = "queued"
    /\ LET s == tasks[id].svc
           request == tasks[id].request
           job == train_model_job(request)
           pc == IF request.epochs > 0
                 THEN IF train_model_cancelled(job) THEN "return_cancelled" ELSE "sleep"
                 ELSE "return_completed"
       IN  /\ active_jobs' = [active_jobs EXCEPT ![s] =
                 DictSet(@, id, IF pc = "return_completed"
                                THEN train_model_completed(job) ELSE job)]
           /\ tasks' = [tasks EXCEPT ![id].pc = pc]
    /\ lastCall' = NoCall
    /\ UNCHANGED cancelAt

train_model_wake(id) ==
    /\ tasks[id] # NoTask
    /\ tasks[id].func = "train_model"
    /\ tasks[id].pc = "sleep"
    /\ LET s == tasks[id].svc
           r == train_model_resume(active_jobs[s][id], tasks[id].step,
                                   tasks[id].request.epochs)
       IN  /\ active_jobs' = [active_jobs EXCEPT ![s][id] = r.job]
           /\ tasks' = [tasks EXCEPT ![id].pc = r.pc, ![id].step = r.step]
    /\ lastCall' = NoCall
    /\ UNCHANGED cancelAt

train_model_raise(id) ==
    /\ tasks[id] # NoTask
    /\ tasks[id].func = "train_model"
    /\ tasks[id].pc = "sleep"
    /\ LET s == tasks[id].svc
       IN  active_jobs' = [active_jobs EXCEPT ![s][id] = train_model_except(@)]
    /\ tasks' = [tasks EXCEPT ![id].pc = "return_failed"]
    /\ lastCall' = NoCall
    /\ UNCHANGED cancelAt

call_get_training_progress(s, training_id) ==
    /\ IsTraining(s)
    /\ lastCall' = [op |-> "get_training_progress", svc |-> s, id |-> training_id,
                    ret |-> get_training_progress(active_jobs[s], training_id)]
    /\ UNCHANGED <<active_jobs, tasks, cancelAt>>

cancel_training(s, training_id) ==
    /\ IsTraining(s)
    /\ LET r == cancel_training_call(active_jobs[s], training_id)
       IN  /\ active_jobs' = [active_jobs EXCEPT ![s] = r.jobs]
           /\ lastCall' = [op |-> "cancel_training", svc |-> s, id |-> training_id,
                    ret |-> r.ret]
           /\ cancelAt' = IF r.ret
                          THEN [cancelAt EXCEPT ![training_id] =
                                   get_training_progress(active_jobs[s], training_id).epoch]
                          ELSE cancelAt
    /\ UNCHANGED tasks

----------------------------------------------------------------------------
(* Endpoints of /optimization *)

start_optimization(request) ==
    \E optimization_id \in Ids :
        /\ uuid4(optimization_id)
        /\ Admits(request.max_iterations)
        /\ tasks' = [tasks EXCEPT ![optimization_id] =
                        [func |-> "optimize_module", svc |-> optimization_id,
                         id |-> optimization_id,
                         request |-> request, pc |-> "queued", step |-> 0]]
        /\ lastCall' = [op |-> "start_optimization", svc |-> optimization_id, id |-> optimization_id,
                        ret |-> OptimizationResponse(optimization_id, request)]
        /\ UNCHANGED <<active_jobs, cancelAt>>

get_optimization_status(optimization_id) ==
    LET progress == get_optimization_progress(get_optimization_service, optimization_id)
    IN  /\ lastCall' = [op |-> "get_optimization_status", svc |-> FreshService, id |-> optimization_id,
                        ret |-> IF progress = None THEN HTTPException(404) ELSE progress]
        /\ UNCHANGED <<active_jobs, tasks, cancelAt>>

endpoint_cancel_optimization(optimization_id) ==
    LET success == cancel_optimization_call(get_optimization_service, optimization_id).ret
    IN  /\ lastCall' = [op |-> "endpoint_cancel_optimization", svc |-> FreshService, id |-> optimization_id,
                        ret |-> IF success THEN [message |-> "cancelled successfully"]
                                          ELSE HTTPException(404)]
        /\ UNCHANGED <<active_jobs, tasks, cancelAt>>

endpoint_get_optimization_results(optimization_id) ==
    LET results == get_optimization_results(get_optimization_service, optimization_id)
    IN  /\ lastCall' = [op |-> "endpoint_get_optimization_results", svc |-> FreshService, id |-> optimization_id,
                        ret |-> IF results = None THEN HTTPException(404) ELSE results]
        /\ UNCHANGED <<active_jobs, tasks, cancelAt>>

----------------------------------------------------------------------------
(* OptimizationService: the runner and the calls on an instance *)

optimize_module_start(id) ==
    /\ tasks[id] # NoTask
    /\ tasks[id].func = "optimize_module"
    /\ tasks[id].pc = "queued"
    /\ LET s == tasks[id].svc
           request == tasks[id].request
           job == optimize_module_job(request)
           pc == IF request.max_iterations > 0
                 THEN IF optimize_module_cancelled(job) THEN "return_cancelled" ELSE "sleep"
                 ELSE "return_completed"
       IN  /\ active_jobs' = [active_jobs EXCEPT ![s] =
                 DictSet(@, id, IF pc = "return_completed"
                                THEN optimize_module_completed(job) ELSE job)]
           /\ tasks' = [tasks EXCEPT ![id].pc = pc]
    /\ lastCall' = NoCall
    /\ UNCHANGED cancelAt

optimize_module_wake(id) ==
    /\ tasks[id] # NoTask
    /\ tasks[id].func = "optimize_module"
    /\ tasks[id].pc = "sleep"
    /\ LET s == tasks[id].svc
           r == optimize_module_resume(active_jobs[s][id], tasks[id].step,
                                       tasks[id].request.max_iterations)
       IN  /\ active_jobs' = [active_jobs EXCEPT ![s][id] = r.job]
           /\ tasks' = [tasks EXCEPT ![id].pc = r.pc, ![id].step = r.step]
    /\ lastCall' = NoCall
    /\ UNCHANGED cancelAt

(* Variant: the exception is not caught in the coroutine and ends every    *)
(* runner that is waiting.                                                 *)
optimize_module_raise_uncaught(id) ==
    /\ tasks[id] # NoTask
    /\ tasks[id].func = "optimize_module"
    /\ tasks[id].pc = "sleep"
    /\ tasks' = [j \in Ids |->
                    IF tasks[j] # NoTask /\ tasks[j].pc = "sleep"
                    THEN [tasks[j] EXCEPT !.pc = "return_failed"]
                    ELSE tasks[j]]
    /\ lastCall' = NoCall
    /\ UNCHANGED <<active_jobs, cancelAt>>

optimize_module_raise(id) ==
    /\ tasks[id] # NoTask
    /\ tasks[id].func = "optimize_module"
    /\ tasks[id].pc = "sleep"
    /\ LET s == tasks[id].svc
       IN  active_jobs' = [active_jobs EXCEPT ![s][id] = optimize_module_except(@)]
    /\ tasks' = [tasks EXCEPT ![id].pc = "return_failed"]
    /\ lastCall' = NoCall
    /\ UNCHANGED cancelAt

call_get_optimization_progress(s, optimization_id) ==
    /\ IsOptimization(s)
    /\ lastCall' = [op |-> "get_optimization_progress", svc |-> s, id |-> optimization_id,
                    ret |-> get_optimization_progress(active_jobs[s], optimization_id)]
    /\ UNCHANGED <<active_jobs, tasks, cancelAt>>

(* Variant: the table is one dict shared by all instances, and an accepted *)
(* cancel marks every running job in it.                                   *)
cancel_optimization_every_job(s, optimization_id) ==
    /\ IsOptimization(s)
    /\ LET r == cancel_optimization_call(active_jobs[s], optimization_id)
           marked(jobs) == [j \in DOMAIN jobs |->
                              IF jobs[j].status = "running"
                              THEN [jobs[j] EXCEPT !.status = "cancelled"]
                              ELSE jobs[j]]
       IN  /\ active_jobs' = IF r.ret
                             THEN [i \in Services |-> marked(active_jobs[i])]
                             ELSE active_jobs
           /\ lastCall' = [op |-> "cancel_optimization", svc |-> s, id |-> optimization_id,
                    ret |-> r.ret]
           /\ cancelAt' = IF r.ret
                          THEN [cancelAt EXCEPT ![optimization_id] =
                                   get_optimization_progress(active_jobs[s],
                                                             optimization_id).iteration]
                          ELSE cancelAt
    /\ UNCHANGED tasks

cancel_optimization(s, optimization_id) ==
    /\ IsOptimization(s)
    /\ LET r == cancel_optimization_call(active_jobs[s], optimization_id)
       IN  /\ active_jobs' = [active_jobs EXCEPT ![s] = r.jobs]
           /\ lastCall' = [op |-> "cancel_optimization", svc |-> s, id |-> optimization_id,
                    ret |-> r.ret]
           /\ cancelAt' = IF r.ret
                          THEN [cancelAt EXCEPT ![optimization_id] =
                                   get_optimization_progress(active_jobs[s],
                                                             optimization_id).iteration]
                          ELSE cancelAt
    /\ UNCHANGED tasks

call_get_optimization_results(s, optimization_id) ==
    /\ IsOptimization(s)
    /\ lastCall' = [op |-> "get_optimization_results", svc |-> s, id |-> optimization_id,
                    ret |-> get_optimization_results(active_jobs[s], optimization_id)]
    /\ UNCHANGED <<active_jobs, tasks, cancelAt>>

----------------------------------------------------------------------------

(* The jobs alone: submissions, runners and cancel calls on an instance.   *)
NextJobs ==
    \/ \E request \in TrainingRequest : start_training(request)
    \/ \E id \in Ids : train_model_start(id)
    \/ \E id \in Ids : train_model_wake(id)
    \/ \E id \in Ids : train_model_raise(id)
    \/ \E s \in Services, id \in Ids : cancel_training(s, id)
    \/ \E request \in OptimizationRequest : start_optimization(request)
    \/ \E id \in Ids : optimize_module_start(id)
    \/ \E id \in Ids : optimize_module_wake(id)
    \/ \E id \in Ids : optimize_module_raise(id)
    \/ \E s \in Services, id \in Ids : cancel_optimization(s, id)

SpecJobs == Init /\ [][NextJobs]_vars

(* The event loop runs every task that is ready: a queued background task  *)
(* is started, and a coroutine waiting in asyncio.sleep(1) is resumed when *)
(* its second is over, unless the sleep raised.                            *)
RunnersAreScheduled ==
    \A id \in Ids :
        /\ WF_vars(train_model_start(id))
        /\ WF_vars(train_model_wake(id))
        /\ WF_vars(optimize_module_start(id))
        /\ WF_vars(optimize_module_wake(id))

(* The jobs with the cancel calls that reach the instance a job runs on    *)
(* (the k-th job runs on the k-th instance), under the same scheduling.    *)
NextCancelled ==
    \/ \E request \in TrainingRequest : start_training(request)
    \/ \E id \in Ids : train_model_start(id)
    \/ \E id \in Ids : train_model_wake(id)
    \/ \E id \in Ids : train_model_raise(id)
    \/ \E id \in Ids : cancel_training(id, id)
    \/ \E request \in OptimizationRequest : start_optimization(request)
    \/ \E id \in Ids : optimize_module_start(id)
    \/ \E id \in Ids : optimize_module_wake(id)
    \/ \E id \in Ids : optimize_module_raise(id)
    \/ \E id \in Ids : cancel_optimization(id, id)

SpecCancelledFair == Init /\ [][NextCancelled]_vars /\ RunnersAreScheduled

(* The jobs that no caller cancels: submissions and runners.               *)
NextRunners ==
    \/ \E request \in TrainingRequest : start_training(request)
    \/ \E id \in Ids : train_model_start(id)
    \/ \E id \in Ids : train_model_wake(id)
    \/ \E id \in Ids : train_model_raise(id)
    \/ \E request \in OptimizationRequest : start_optimization(request)
    \/ \E id \in Ids : optimize_module_start(id)
    \/ \E id \in Ids : optimize_module_wake(id)
    \/ \E id \in Ids : optimize_module_raise(id)

SpecRunnersFair == Init /\ [][NextRunners]_vars /\ RunnersAreScheduled

(* POST /training/start with a body: FastAPI validates the body against    *)
(* TrainingRequest before it calls the endpoint function, and answers 422  *)
(* without calling it when a field is out of range.                        *)
post_training_start(epochs) ==
    IF epochs_field(epochs)
    THEN start_training([epochs |-> epochs])
    ELSE /\ lastCall' = [op |-> "start_training", svc |-> FreshService, id |-> 0,
                         ret |-> HTTPException(422), body |-> epochs]
         /\ UNCHANGED <<active_jobs, tasks, cancelAt>>

post_optimization_start(max_iterations) ==
    IF max_iterations_field(max_iterations)
    THEN start_optimization([max_iterations |-> max_iterations])
    ELSE /\ lastCall' = [op |-> "start_optimization", svc |-> FreshService, id |-> 0,
                         ret |-> HTTPException(422), body |-> max_iterations]
         /\ UNCHANGED <<active_jobs, tasks, cancelAt>>

(* Submissions as they arrive, valid or not, and the runners.              *)
NextSubmit ==
    \/ \E epochs \in RawSteps : post_training_start(epochs)
    \/ \E id \in Ids : train_model_start(id)
    \/ \E id \in Ids : train_model_wake(id)
    \/ \E id \in Ids : train_model_raise(id)
    \/ \E max_iterations \in RawSteps : post_optimization_start(max_iterations)
    \/ \E id \in Ids : optimize_module_start(id)
    \/ \E id \in Ids : optimize_module_wake(id)
    \/ \E id \in Ids : optimize_module_raise(id)

SpecSubmit == Init /\ [][NextSubmit]_vars

Next ==
    \/ \E request \in TrainingRequest : start_training(request)
    \/ \E id \in Ids : get_training_status(id)
    \/ \E id \in Ids : endpoint_cancel_training(id)
    \/ \E id \in Ids : train_model_start(id)
    \/ \E id \in Ids : train_model_wake(id)
    \/ \E id \in Ids : train_model_raise(id)
    \/ \E s \in Services, id \in Ids : call_get_training_progress(s, id)
    \/ \E s \in Services, id \in Ids : cancel_training(s, id)
    \/ \E request \in OptimizationRequest : start_optimization(request)
    \/ \E id \in Ids : get_optimization_status(id)
    \/ \E id \in Ids : endpoint_cancel_optimization(id)
    \/ \E id \in Ids : endpoint_get_optimization_results(id)
    \/ \E id \in Ids : optimize_module_start(id)
    \/ \E id \in Ids : optimize_module_wake(id)
    \/ \E id \in Ids : optimize_module_raise(id)
    \/ \E s \in Services, id \in Ids : call_get_optimization_progress(s, id)
    \/ \E s \in Services, id \in Ids : cancel_optimization(s, id)
    \/ \E s \in Services, id \in Ids : call_get_optimization_results(s, id)

Spec == Init /\ [][Next]_vars

(* One service class with the callers of its instances: the optimization   *)
(* jobs, their cancel calls and their two read calls.                      *)
NextOptimization ==
    \/ \E request \in OptimizationRequest : start_optimization(request)
    \/ \E id \in Ids : optimize_module_start(id)
    \/ \E id \in Ids : optimize_module_wake(id)
    \/ \E id \in Ids : optimize_module_raise(id)
    \/ \E s \in Services, id \in Ids : call_get_optimization_progress(s, id)
    \/ \E s \in Services, id \in Ids : cancel_optimization(s, id)
    \/ \E s \in Services, id \in Ids : call_get_optimization_results(s, id)

SpecOptimization == Init /\ [][NextOptimization]_vars

----------------------------------------------------------------------------
(* What a job looks like from outside *)

Submitted(id) == tasks[id] # NoTask

IsTrainingJob(id) == tasks[id].func = "train_model"

(* The table of the instance the runner of job id is bound to.             *)
Registry(id) == active_jobs[tasks[id].svc]

HasRecord(id) == Submitted(id) /\ id \in DOMAIN Registry(id)

Progress(id) == IF IsTrainingJob(id) THEN get_training_progress(Registry(id), id)
                ELSE get_optimization_progress(Registry(id), id)

(* The status the start request answered with until the runner writes one. *)
JobStatus(id) ==
    IF ~Submitted(id) THEN "none"
    ELSE IF HasRecord(id) THEN Progress(id).status
    ELSE IF IsTrainingJob(id) THEN TrainingResponse(id, tasks[id].request).status
    ELSE OptimizationResponse(id, tasks[id].request).status

CurrentStep(id) ==
    IF ~HasRecord(id) THEN 0
    ELSE IF IsTrainingJob(id) THEN Progress(id).epoch ELSE Progress(id).iteration

TotalSteps(id) == Steps(tasks[id])

Returned(id) ==
    Submitted(id) /\ tasks[id].pc \in {"return_cancelled", "return_completed", "return_failed"}

Terminal == {"completed", "failed", "cancelled"}

StatusGraph == {<<"pending", "running">>, <<"running", "completed">>,
                <<"running", "failed">>, <<"running", "cancelled">>,
                <<"pending", "cancelled">>}

CancelOps == {"cancel_training", "cancel_optimization"}

StatusOps == {"get_training_status", "get_optimization_status"}

----------------------------------------------------------------------------
(* C1: a job's status changes only along pending->running,                 *)
(* running->completed, running->failed, running->cancelled or              *)
(* pending->cancelled; a completed, failed or cancelled job keeps its      *)
(* status for ever.                                                        *)
C1_StatusFollowsGraph ==
    [][\A id \in Ids :
          (Submitted(id) /\ JobStatus(id)' # JobStatus(id))
              => <<JobStatus(id), JobStatus(id)'>> \in StatusGraph]_vars

(* C2: a job whose cancel returned True while it was running ends          *)
(* cancelled, never completed or failed, with current_step <= total_steps, *)
(* and a cancelled status is never taken back.                             *)
C2_AcceptedCancelEndsCancelled ==
    [][\A id \in Ids :
          /\ (Returned(id)' /\ cancelAt'[id] # NoCancel)
                => (JobStatus(id)' = "cancelled" /\ CurrentStep(id)' <= TotalSteps(id)')
          /\ (Submitted(id) /\ JobStatus(id) = "cancelled")
                => JobStatus(id)' = "cancelled"]_vars

(* C3: a status request for a job that was submitted and whose runner has  *)
(* not begun answers with a snapshot, status pending and step 0, never     *)
(* with not-found.                                                         *)
C3_PendingJobIsFound ==
    (lastCall.op \in StatusOps /\ Submitted(lastCall.id)
        /\ tasks[lastCall.id].pc = "queued"
        /\ (lastCall.op = "get_training_status") = IsTrainingJob(lastCall.id))
    => /\ lastCall.ret # HTTPException(404)
       /\ lastCall.ret.status = "pending"
       /\ IF IsTrainingJob(lastCall.id) THEN lastCall.ret.epoch = 0
          ELSE lastCall.ret.iteration = 0

(* C4: a status request for a running job that has recorded k of its n     *)
(* steps, 0 < k < n, answers status running and current_step k: the        *)
(* request layer reads the table the runner writes.                        *)
C4_RequestLayerReadsRunnerTable ==
    (lastCall.op \in StatusOps /\ Submitted(lastCall.id)
        /\ (lastCall.op = "get_training_status") = IsTrainingJob(lastCall.id)
        /\ tasks[lastCall.id].pc = "sleep"
        /\ JobStatus(lastCall.id) = "running"
        /\ 0 < CurrentStep(lastCall.id)
        /\ CurrentStep(lastCall.id) < TotalSteps(lastCall.id))
    => /\ lastCall.ret # HTTPException(404)
       /\ lastCall.ret.status = "running"
       /\ IF IsTrainingJob(lastCall.id)
          THEN lastCall.ret.epoch = CurrentStep(lastCall.id)
          ELSE lastCall.ret.iteration = CurrentStep(lastCall.id)

(* C5: a cancel call on the instance a job was submitted to returns True   *)
(* exactly when the job is pending or running at the call, and False for   *)
(* an id the instance does not know and for a terminal job.                *)
C5_CancelAcceptsPendingAndRunning ==
    [][(lastCall' # lastCall /\ lastCall'.op \in CancelOps)
          => LET s == lastCall'.svc
                 id == lastCall'.id
             IN  lastCall'.ret = (/\ Submitted(id)
                                  /\ tasks[id].svc = s
                                  /\ JobStatus(id) \in {"pending", "running"})]_vars

(* The record of a job without its status.                                 *)
Rest(job) == [job EXCEPT !.status = "-"]

Results(id) == get_optimization_results(Registry(id), id)

C7_CancelOfTerminalJobIsRefused ==
    [][lastCall'.op \in CancelOps
          => LET s == lastCall'.svc
                 id == lastCall'.id
             IN  (id \in DOMAIN active_jobs[s] /\ active_jobs[s][id].status \in Terminal)
                    => (lastCall'.ret = FALSE /\ active_jobs' = active_jobs)]_vars

C7_Witness ==
    /\ lastCall.op \in CancelOps
    /\ lastCall.ret = FALSE
    /\ Submitted(lastCall.id)
    /\ tasks[lastCall.id].svc = lastCall.svc
    /\ JobStatus(lastCall.id) = "completed"
    /\ cancelAt[lastCall.id] = NoCancel

(* C8: of two cancels of a running job the first returns True and every    *)
(* later one False, whatever the runner does in between.                   *)
C8_CancelTwice ==
    [][lastCall'.op \in CancelOps
          => LET s == lastCall'.svc
                 id == lastCall'.id
             IN  /\ (id \in DOMAIN active_jobs[s] /\ active_jobs[s][id].status = "running")
                       => (lastCall'.ret = TRUE /\ cancelAt[id] = NoCancel)
                 /\ cancelAt[id] # NoCancel => lastCall'.ret = FALSE]_vars

C8_Witness ==
    /\ lastCall.op \in CancelOps
    /\ lastCall.ret = FALSE
    /\ Submitted(lastCall.id)
    /\ tasks[lastCall.id].svc = lastCall.svc
    /\ cancelAt[lastCall.id] # NoCancel
    /\ JobStatus(lastCall.id) = "cancelled"
    /\ CurrentStep(lastCall.id) = cancelAt[lastCall.id] + 1

C10_AtMostOneMoreStep ==
    \A id \in Ids :
        (Submitted(id) /\ cancelAt[id] # NoCancel) => CurrentStep(id) <= cancelAt[id] + 1

C10_Witness ==
    \E id \in Ids :
        /\ Returned(id)
        /\ cancelAt[id] # NoCancel
        /\ CurrentStep(id) = cancelAt[id] + 1
        /\ CurrentStep(id) < TotalSteps(id)

History(id) == IF HasRecord(id) /\ ~IsTrainingJob(id) THEN Registry(id)[id].history
               ELSE << >>

(* C11: when the step after the k recorded ones raises in a running job,   *)
(* the job becomes failed with an error message, its step count and its    *)
(* history stay at k, get_optimization_results answers None, and the       *)
(* runner, having returned, changes nothing of the job any more.           *)
C11_FailedStepStopsTheJob ==
    [][\A id \in Ids :
          /\ (/\ Submitted(id)
              /\ tasks[id].pc = "sleep"
              /\ JobStatus(id) = "running"
              /\ tasks'[id].pc = "return_failed")
                => /\ JobStatus(id)' = "failed"
                   /\ Registry(id)'[id].error # {}
                   /\ CurrentStep(id)' = CurrentStep(id)
                   /\ History(id)' = History(id)
                   /\ tasks'[id].step = tasks[id].step
                   /\ IsTrainingJob(id) \/ Results(id)' = None
          /\ (Submitted(id) /\ tasks[id].pc = "return_failed")
                => /\ tasks'[id] = tasks[id]
                   /\ Registry(id)'[id] = Registry(id)[id]]_vars

C11_Witness ==
    \E id \in Ids :
        /\ Submitted(id)
        /\ ~IsTrainingJob(id)
        /\ tasks[id].pc = "return_failed"
        /\ cancelAt[id] = NoCancel
        /\ JobStatus(id) = "failed"
        /\ Registry(id)[id].error # {}
        /\ CurrentStep(id) = 2
        /\ Len(History(id)) = 2
        /\ TotalSteps(id) = 3
        /\ Results(id) = None

(* The completion_time of a record, {} while the key is absent.            *)
EndedAt(id) == IF HasRecord(id) THEN Registry(id)[id].completion_time ELSE {}

(* C12: a job has a completion_time exactly when its status is completed,  *)
(* failed or cancelled, and a completion_time once written never changes.  *)
C12_EndedAtIffTerminal ==
    [][\A id \in Ids :
          /\ Submitted(id)' => ((EndedAt(id)' # {}) <=> (JobStatus(id)' \in Terminal))
          /\ EndedAt(id) # {} => EndedAt(id)' = EndedAt(id)]_vars

(* C13: get_optimization_results, called on the instance that runs a job,  *)
(* returns None while the job is pending, running, failed or cancelled,    *)
(* and for a completed job a result whose iterations_completed is the      *)
(* max_iterations of the request and the length of its history.            *)
C13_ResultsOnlyWhenCompleted ==
    (/\ lastCall.op = "get_optimization_results"
     /\ Submitted(lastCall.id)
     /\ tasks[lastCall.id].svc = lastCall.svc)
    => IF JobStatus(lastCall.id) # "completed"
       THEN lastCall.ret = None
       ELSE /\ lastCall.ret # None
            /\ lastCall.ret.iterations_completed = TotalSteps(lastCall.id)
            /\ Len(lastCall.ret.optimization_history) = lastCall.ret.iterations_completed

C13_Witness ==
    /\ lastCall.op = "get_optimization_results"
    /\ Submitted(lastCall.id)
    /\ tasks[lastCall.id].svc = lastCall.svc
    /\ JobStatus(lastCall.id) = "completed"
    /\ lastCall.ret # None
    /\ lastCall.ret.iterations_completed = 3
    /\ \E other \in Ids : Submitted(other) /\ JobStatus(other) = "cancelled"

C15_StepCountGrowsWithinBounds ==
    /\ [](\A id \in Ids :
            Submitted(id) => (0 <= CurrentStep(id) /\ CurrentStep(id) <= TotalSteps(id)))
    /\ [][\A id \in Ids :
            (Submitted(id) /\ <<active_jobs, tasks>>' # <<active_jobs, tasks>>)
                => CurrentStep(id) <= CurrentStep(id)']_vars

C15_Witness ==
    \E id \in Ids :
        /\ HasRecord(id)
        /\ IsTrainingJob(id)
        /\ JobStatus(id) = "completed"
        /\ TotalSteps(id) = 3
        /\ CurrentStep(id) = 3

(* C16: a cancel call for a job whose runner has not begun is accepted and *)
(* leaves the job cancelled; the runner of a job cancelled while pending   *)
(* executes no step, so the step count of the job stays 0.                 *)
C16_PendingCancelIsAccepted ==
    [][\A id \in Ids :
          /\ (/\ lastCall'.op \in CancelOps
              /\ lastCall'.id = id
              /\ Submitted(id)
              /\ tasks[id].svc = lastCall'.svc
              /\ tasks[id].pc = "queued")
                => /\ lastCall'.ret = TRUE
                   /\ JobStatus(id)' = "cancelled"
          /\ (Submitted(id) /\ tasks[id].pc = "queued" /\ JobStatus(id) = "cancelled")
                => /\ tasks'[id].pc \in {"queued", "return_cancelled"}
                   /\ CurrentStep(id)' = 0]_vars

(* C17: under a scheduler that runs every ready task, a submitted job     *)
(* that is never cancelled and none of whose steps raises comes to be      *)
(* completed, with all its steps recorded and a completion_time: where no  *)
(* cancel is called, every submitted job gets there unless a step raises.  *)
C17_UndisturbedJobCompletes ==
    \A id \in Ids :
        Submitted(id) ~> \/ /\ JobStatus(id) = "completed"
                            /\ CurrentStep(id) = TotalSteps(id)
                            /\ EndedAt(id) # {}
                         \/ Submitted(id) /\ tasks[id].pc = "return_failed"

C17_Witness ==
    \E id \in Ids :
        /\ Submitted(id)
        /\ cancelAt[id] = NoCancel
        /\ tasks[id].pc = "return_completed"
        /\ JobStatus(id) = "completed"
        /\ TotalSteps(id) = 3
        /\ CurrentStep(id) = 3
        /\ EndedAt(id) # {}

ServiceOps == {"get_optimization_progress", "cancel_optimization",
               "get_optimization_results"}

(* C18: get_optimization_progress, cancel_optimization and                 *)
(* get_optimization_results, called with an id the table of the instance   *)
(* does not hold, return None, False and None, and change no table, no     *)
(* task and no other state.                                                *)
C18_UnknownIdIsHarmless ==
    [][\A s \in Services, id \in Ids :
          (/\ lastCall'.op \in ServiceOps
           /\ lastCall'.svc = s
           /\ lastCall'.id = id
           /\ id \notin DOMAIN active_jobs[s])
          => /\ IF lastCall'.op = "cancel_optimization"
                THEN lastCall'.ret = FALSE
                ELSE lastCall'.ret = None
             /\ active_jobs' = active_jobs
             /\ tasks' = tasks
             /\ cancelAt' = cancelAt]_vars

C18_Witness ==
    /\ lastCall.op = "cancel_optimization"
    /\ lastCall.ret = FALSE
    /\ lastCall.id \notin DOMAIN active_jobs[lastCall.svc]
    /\ lastCall.svc \in DOMAIN active_jobs[lastCall.svc]
    /\ active_jobs[lastCall.svc][lastCall.svc].status = "running"
    /\ HasRecord(lastCall.id)
    /\ JobStatus(lastCall.id) = "running"

(* C19: a record has an error message only if its status is failed.        *)
C19_ErrorOnlyWhenFailed ==
    \A id \in Ids :
        (HasRecord(id) /\ Registry(id)[id].error # {}) => JobStatus(id) = "failed"

C19_Witness ==
    \E id \in Ids :
        /\ HasRecord(id)
        /\ Registry(id)[id].error # {}
        /\ JobStatus(id) = "failed"
        /\ cancelAt[id] # NoCancel
        /\ lastCall.op \in CancelOps
        /\ lastCall.id = id
        /\ lastCall.svc = tasks[id].svc
        /\ lastCall.ret = FALSE

StartOps == {"start_training", "start_optimization"}

(* C20: a submission answers with an id no earlier job has, queues its     *)
(* runner under that id and touches no task and no record of an earlier    *)
(* job; a job keeps its coroutine, request and instance, its record once   *)
(* written is never removed, and every record is the record of one job.    *)
C20_IdsAreFresh ==
    [][\A id \in Ids :
          /\ (lastCall'.op \in StartOps /\ lastCall'.id = id)
                => /\ ~Submitted(id)
                   /\ Submitted(id)'
                   /\ tasks'[id].id = id
                   /\ IF lastCall'.op = "start_training"
                      THEN lastCall'.ret.training_id = id
                      ELSE lastCall'.ret.optimization_id = id
                   /\ \A other \in Ids \ {id} : tasks'[other] = tasks[other]
                   /\ active_jobs' = active_jobs
          /\ Submitted(id)
                => /\ tasks'[id].func = tasks[id].func
                   /\ tasks'[id].request = tasks[id].request
                   /\ tasks'[id].svc = tasks[id].svc
                   /\ HasRecord(id) => HasRecord(id)'
          /\ \A s \in Services :
                id \in DOMAIN active_jobs'[s] => (Submitted(id)' /\ tasks'[id].svc = s)]_vars

C20_Witness ==
    /\ lastCall.op \in StartOps
    /\ \E earlier \in Ids \ {lastCall.id} :
          /\ HasRecord(earlier)
          /\ tasks[earlier].func = tasks[lastCall.id].func
          /\ tasks[earlier].request = tasks[lastCall.id].request
          /\ CurrentStep(earlier) = 1
    /\ tasks[lastCall.id].pc = "queued"

(* C21: a submission whose epochs or max_iterations is 0 or less is        *)
(* answered 422 and creates no task and no record, and no other submission *)
(* is; so every job, queued or recorded, has at least one step to run.     *)
C21_InvalidSubmissionIsRejected ==
    /\ [](\A id \in Ids :
            Submitted(id) =>
                /\ TotalSteps(id) >= 1
                /\ HasRecord(id) => Registry(id)[id].request = tasks[id].request)
    /\ [][lastCall'.ret = HTTPException(422)
            => /\ lastCall'.op \in StartOps
               /\ lastCall'.body <= 0
               /\ tasks' = tasks
               /\ active_jobs' = active_jobs]_vars

C21_Witness ==
    /\ lastCall.op = "start_training"
    /\ lastCall.ret = HTTPException(422)
    /\ lastCall.body = 0
    /\ \E id \in Ids : HasRecord(id) /\ JobStatus(id) = "running"
    /\ \E id \in Ids : ~Submitted(id)

(* C22: in every reachable state the entries of the history of a job carry *)
(* the iteration numbers 1, 2, ..., len(history) in this order.            *)
C22_HistoryIsNumberedInOrder ==
    \A id \in Ids :
        \A i \in 1..Len(History(id)) : History(id)[i].iteration = i

C22_Witness ==
    \E id \in Ids :
        /\ Len(History(id)) = 3
        /\ History(id)[1].iteration = 1
        /\ History(id)[3].iteration = 3
        /\ cancelAt[id] # NoCancel

IsPrefix(s, t) == Len(s) <= Len(t) /\ SubSeq(t, 1, Len(s)) = s

(* C23: in every step, a cancel call and the step into a terminal status   *)
(* among them, the history of a job before the step is a prefix of its     *)
(* history after the step.                                                 *)
C23_HistoryIsAppendOnly ==
    [][\A id \in Ids : IsPrefix(History(id), History(id)')]_vars

C23_Witness ==
    \E id \in Ids :
        /\ Submitted(id)
        /\ tasks[id].pc = "return_cancelled"
        /\ cancelAt[id] = 1
        /\ Len(History(id)) = 2
        /\ lastCall.op = "cancel_optimization"
        /\ lastCall.id = id
        /\ lastCall.svc = tasks[id].svc

(* The best_score of the record of an optimization job, 0.0 as at creation *)
(* while there is no record.                                               *)
BestScore(id) == IF HasRecord(id) /\ ~IsTrainingJob(id) THEN Registry(id)[id].best_score
                 ELSE 0

(* C24: the best score of a job never decreases; a step that records an    *)
(* iteration leaves it at the larger of its value before and the score of  *)
(* that iteration, and no other step changes it (the score is read from   *)
(* the tables and the tasks, so a step that changes neither is left out).  *)
C24_BestScoreIsRunningMaximum ==
    [][<<active_jobs, tasks>>' # <<active_jobs, tasks>> =>
          \A id \in Ids :
              LET before == History(id)
                  after == History(id)'
              IN  /\ BestScore(id) <= BestScore(id)'
                  /\ IF Len(after) = Len(before) + 1
                     THEN BestScore(id)' = Max(BestScore(id), after[Len(after)].score)
                     ELSE BestScore(id)' = BestScore(id)]_vars

C24_Witness ==
    \E id \in Ids :
        /\ Len(History(id)) = 2
        /\ BestScore(id) = History(id)[2].score
        /\ History(id)[2].score > History(id)[1].score
        /\ History(id)[1].score > 0

(* C25: in every state a reader can see, the progress of a record is its   *)
(* step count over its total (here: their numerators agree), and the       *)
(* best_score of an optimization record that has a history is the          *)
(* best_score of its last history entry, which get_optimization_progress   *)
(* reports; the writes of one step are never seen apart.                   *)
C25_ReaderSeesWholeSteps ==
    \A id \in Ids :
        HasRecord(id) =>
            LET job == Registry(id)[id]
            IN  /\ job.progress = CurrentStep(id)
                /\ job.progress <= TotalSteps(id)
                /\ IF IsTrainingJob(id)
                   THEN (job.metrics = {}) = (job.current_epoch = {})
                   ELSE job.history # << >> =>
                          /\ job.best_score = job.history[Len(job.history)].best_score
                          /\ Progress(id).best_score = job.best_score

C25_Witness ==
    \E id \in Ids :
        /\ HasRecord(id)
        /\ ~IsTrainingJob(id)
        /\ tasks[id].pc = "sleep"
        /\ TotalSteps(id) = 3
        /\ Registry(id)[id].progress = 2
        /\ Progress(id).iteration = 2
        /\ Progress(id).best_score = Registry(id)[id].best_score
        /\ Registry(id)[id].best_score > 0

(* The record of job id in the table of instance s, None where the table   *)
(* has no entry for it.                                                    *)
Entry(s, id) == IF id \in DOMAIN active_jobs[s] THEN active_jobs[s][id] ELSE None

(* C26: a step of a job that raises makes that job failed and changes the  *)
(* task of no other job and no entry of another job in any table; and with *)
(* the runners scheduled fairly, every other job submitted by then still   *)
(* runs to its end.                                                        *)
C26_FailureStaysInItsJob ==
    /\ [][\A id \in Ids :
            (Submitted(id) /\ tasks[id].pc = "sleep" /\ tasks'[id].pc = "return_failed")
                => /\ JobStatus(id)' = "failed"
                   /\ \A other \in Ids \ {id} :
                         /\ tasks'[other] = tasks[other]
                         /\ \A s \in Services : Entry(s, other)' = Entry(s, other)]_vars
    /\ \A id \in Ids : \A other \in Ids \ {id} :
          (/\ Submitted(id)
           /\ tasks[id].pc = "return_failed"
           /\ Submitted(other))
          ~> (Returned(other) /\ JobStatus(other) \in Terminal)

C26_Witness ==
    \E id \in Ids : \E other \in Ids \ {id} :
        /\ Submitted(id)
        /\ tasks[id].pc = "return_failed"
        /\ JobStatus(id) = "failed"
        /\ Submitted(other)
        /\ tasks[other].pc = "return_completed"
        /\ JobStatus(other) = "completed"
        /\ TotalSteps(other) = 2

(* C27: with the runners scheduled fairly and cancel calls arriving at any *)
(* moment, no job stays pending or running for ever: again and again every *)
(* submitted job is found completed, failed or cancelled.                  *)
C27_EveryJobEnds ==
    \A id \in Ids : []<>(~Submitted(id) \/ JobStatus(id) \in Terminal)

C27_Witness ==
    /\ \A id \in Ids : Returned(id) /\ JobStatus(id) \in Terminal
    /\ \E id \in Ids : tasks[id].pc = "return_cancelled" /\ CurrentStep(id) < TotalSteps(id)
    /\ \E id \in Ids : tasks[id].pc = "return_completed" /\ cancelAt[id] = NoCancel

(* C28: a completed job has recorded all its steps, whether or not a       *)
(* cancel of it was accepted on the way: its step count is its total, and  *)
(* for an optimization job so is the length of its history.                *)
C28_CompletedMeansAllSteps ==
    \A id \in Ids :
        (Submitted(id) /\ JobStatus(id) = "completed")
            => /\ CurrentStep(id) = TotalSteps(id)
               /\ tasks[id].pc = "return_completed"
               /\ IF IsTrainingJob(id)
                  THEN Registry(id)[id].current_epoch = {TotalSteps(id)}
                  ELSE Len(History(id)) = TotalSteps(id)

C28_Witness ==
    \E id \in Ids :
        /\ Submitted(id)
        /\ JobStatus(id) = "completed"
        /\ cancelAt[id] # NoCancel
        /\ TotalSteps(id) = 3
        /\ Len(History(id)) = 3

(* C29: a cancel is accepted only while the runner of the job waits in the *)
(* sleep of a step; that step is still recorded, so a job accepted for     *)
(* cancel at step count k whose runner has returned without raising shows  *)
(* step count k + 1, and a job that ended cancelled has at least one step. *)
C29_StepInFlightIsRecorded ==
    /\ [](\A id \in Ids :
            Returned(id) =>
                /\ (cancelAt[id] # NoCancel /\ tasks[id].pc # "return_failed")
                      => (CurrentStep(id) = cancelAt[id] + 1 /\ tasks[id].step = cancelAt[id] + 1)
                /\ JobStatus(id) = "cancelled" => CurrentStep(id) >= 1)
    /\ [][\A id \in Ids :
            cancelAt'[id] # cancelAt[id]
                => /\ Submitted(id)
                   /\ tasks[id].pc = "sleep"
                   /\ tasks'[id] = tasks[id]
                   /\ cancelAt'[id] = tasks[id].step]_vars

C29_Witness ==
    \E id \in Ids :
        /\ Returned(id)
        /\ IsTrainingJob(id)
        /\ tasks[id].pc = "return_cancelled"
        /\ JobStatus(id) = "cancelled"
        /\ cancelAt[id] = 0
        /\ CurrentStep(id) = 1

(* C30: a cancel call that names job a, accepted or refused, and a step of *)
(* the runner of job a, its last one included, change the task of no other *)
(* job and, in every table, no entry under another id: none is added, none *)
(* removed and no field of one is written.                                 *)
C30_OtherJobsUntouched ==
    [][\A a \in Ids :
          (\/ lastCall'.op \in CancelOps /\ lastCall'.id = a
           \/ Submitted(a) /\ tasks'[a] # tasks[a])
          => \A other \in Ids \ {a} :
                /\ tasks'[other] = tasks[other]
                /\ cancelAt'[other] = cancelAt[other]
                /\ \A s \in Services : Entry(s, other)' = Entry(s, other)]_vars

C30_Witness ==
    \E a \in Ids : \E other \in Ids \ {a} :
        /\ lastCall.op \in CancelOps
        /\ lastCall.id = a
        /\ lastCall.ret = TRUE
        /\ JobStatus(a) = "cancelled"
        /\ HasRecord(other)
        /\ tasks[other].func = tasks[a].func
        /\ JobStatus(other) = "running"
        /\ CurrentStep(other) = 1

====
